---- MODULE Spec2Model ----
(***************************************************************************)
(* SnapshotManifestRequest::handle of the snapshot-sync protocol           *)
(* (core/src/sync/state/snapshot_manifest_request.rs): the blame-vector    *)
(* reconstruction get_blame_states, the epoch-receipt collection           *)
(* get_block_receipts and the response assembled from them, run against a  *)
(* block store that may be complete, have gaps, or be malformed.           *)
(*                                                                         *)
(* One action is one lookup of the handler (a header, an execution record, *)
(* an epoch's block list, an execution result), in the order of the code.  *)
(***************************************************************************)
EXTENDS Integers, Sequences, FiniteSets

\* ------------------------------------------------------------------ bounds

\* The reward window of parameters::consensus_internal. The protocol value is
\* 12; the model runs a shorter window, and every formula below is stated in
\* terms of the name, never of the number.
REWARD_EPOCH_COUNT == 3

\* Number of pivot blocks of the stored chain: hashes 1..MaxChain, heights
\* 0..MaxChain-1. Hash 0 is the parent hash of genesis, which names no block.
MaxChain == 4

\* Largest blame count a stored header carries.
MaxBlame == 3

\* The blame counts the stored headers are given.
BlameCounts == {0, 1, MaxBlame}

\* ------------------------------------------------------------------ values

\* Option<T>: None is the empty sequence, Some(v) the sequence of v alone.
NoneVal == <<>>

Some(v) == <<v>>

IsSome(o) == Len(o) = 1

IsNone(o) == Len(o) = 0

Unwrap(o) == o[1]

PivotHashes == 1..MaxChain

\* The hashes a request may name: the pivot blocks and the null hash.
Hashes == 0..MaxChain

Heights == 0..(MaxChain - 1)

\* One block outside the pivot chain in every epoch above genesis.
SideBlock(height) == MaxChain + height

SideHashes == {SideBlock(k) : k \in Heights \ {0}}

AllHashes == Hashes \cup SideHashes

\* The three commitments of a block's execution record.
StateRoot(h) == <<"state_root", h>>

ReceiptRoot(h) == <<"receipt_root", h>>

LogsBloomHash(h) == <<"logs_bloom_hash", h>>

ExecInfoOf(h) ==
    [original_deferred_state_root |-> StateRoot(h),
     original_deferred_receipt_root |-> ReceiptRoot(h),
     original_deferred_logs_bloom_hash |-> LogsBloomHash(h)]

\* The execution result of a block as executed in an epoch.
ExecResultOf(hash, epoch_hash) == [block |-> hash, epoch |-> epoch_hash]

PivotAt(height) == height + 1

\* ------------------------------------------------------------- the store

\* A well-formed chain: block h has height h-1 and parent h-1; the side block
\* of an epoch has the epoch's height and the previous pivot block as parent.
ChainHeader(h, blame) ==
    IF h \in PivotHashes
    THEN Some([hash |-> h, height |-> h - 1, parent_hash |-> h - 1, blame |-> blame])
    ELSE IF h \in SideHashes
    THEN Some([hash |-> h, height |-> h - MaxChain, parent_hash |-> h - MaxChain,
               blame |-> 0])
    ELSE NoneVal

ChainEpoch(height) ==
    IF height = 0 THEN <<PivotAt(0)>>
    ELSE <<SideBlock(height), PivotAt(height)>>

\* Every block of an epoch has a result stored under the epoch's pivot block.
ChainResults ==
    {p \in AllHashes \X PivotHashes :
        \E i \in DOMAIN ChainEpoch(p[2] - 1) : ChainEpoch(p[2] - 1)[i] = p[1]}

\* What may be wrong with the store: at most one of a missing header, a
\* missing execution record, an epoch the resolver fails on, a missing
\* execution result, a parent link that points at the block itself or upwards
\* (a cycle).
Faults ==
    {[kind |-> "none", a |-> 0, b |-> 0]}
    \cup {[kind |-> "no_header", a |-> h, b |-> 0] : h \in PivotHashes}
    \cup {[kind |-> "no_exec_info", a |-> h, b |-> 0] : h \in PivotHashes}
    \cup {[kind |-> "epoch_err", a |-> k, b |-> 0] : k \in Heights}
    \cup {[kind |-> "no_result", a |-> p[1], b |-> p[2]] : p \in ChainResults}
    \cup {[kind |-> "cycle", a |-> p[1], b |-> p[2]] :
            p \in {q \in PivotHashes \X PivotHashes : q[2] >= q[1]}}

StoreHeaders(f, blame) ==
    [h \in AllHashes |->
        IF f.kind = "no_header" /\ f.a = h THEN NoneVal
        ELSE IF f.kind = "cycle" /\ f.a = h
        THEN Some([hash |-> h, height |-> h - 1, parent_hash |-> f.b, blame |-> blame])
        ELSE ChainHeader(h, blame)]

StoreExecInfo(f) ==
    [h \in AllHashes |->
        IF h \in PivotHashes /\ ~(f.kind = "no_exec_info" /\ f.a = h)
        THEN Some(ExecInfoOf(h))
        ELSE NoneVal]

StoreEpochBlocks(f) ==
    [k \in Heights |->
        IF f.kind = "epoch_err" /\ f.a = k THEN NoneVal ELSE Some(ChainEpoch(k))]

StoreResults(f) ==
    IF f.kind = "no_result" THEN ChainResults \ {<<f.a, f.b>>} ELSE ChainResults

ManifestOutcomes == {"OkSome", "OkNone", "Err"}

RequestIds == {1, 2}

StartChunks == {NoneVal, Some("chunk")}

Requests ==
    [request_id : RequestIds,
     checkpoint : Hashes,
     start_chunk : StartChunks,
     trusted_blame_block : {NoneVal} \cup {Some(h) : h \in Hashes}]

\* ------------------------------------------------------------------ state

VARIABLES
    headers,            \* data_man: hash -> header, or None
    exec_info,          \* data_man: hash -> execution commitments, or None
    epoch_blocks,       \* consensus.inner: height -> ordered block hashes, or None (Err)
    exec_results,       \* data_man: the (block, epoch) pairs with a stored result
    manifest_store,     \* the outcome of RangedManifest::load
    request,            \* self
    pc,                 \* the handler's position
    manifest,           \* handle: manifest
    blame_states,       \* handle: the Option get_blame_states returned
    block_receipts,     \* handle: the Option get_block_receipts returned
    trusted_block,      \* get_blame_states: trusted_block
    loop_cnt,           \* get_blame_states: loop_cnt
    state_blame_vec,    \* get_blame_states: state_blame_vec
    receipt_blame_vec,  \* get_blame_states: receipt_blame_vec
    bloom_blame_vec,    \* get_blame_states: bloom_blame_vec
    block_hash,         \* get_blame_states: block_hash
    epoch_receipts,     \* get_block_receipts: epoch_receipts
    epoch_hash,         \* get_block_receipts: epoch_hash
    iter,               \* get_block_receipts: iterations of the for loop begun
    block,              \* get_block_receipts: block
    epoch_list,         \* get_block_receipts: ordered_executable_epoch_blocks
    idx,                \* get_block_receipts: position in the inner for loop
    read_guards,        \* read guards held on consensus.inner
    write_guards,       \* write guards held on consensus.inner
    exec_lookups,       \* execution-record lookups made by the blame walk
    parent_lookups,     \* header lookups made inside the blame walk's loop
    epochs_processed,   \* epochs whose block list was fully collected
    responses,          \* the responses handed to ctx.send_response
    result_cache,       \* data_man: the (block, epoch) pairs held in its in-memory cache
    resent,             \* requester: the Option resend() returned
    capability,         \* requester: what required_capability() returned, and for which request
    other               \* a second handler's get_blame_states: its position and locals

\* What the node keeps on disk, and with the in-memory cache of data_man all
\* that the handler's collaborators hold.
persistedVars == <<headers, exec_info, epoch_blocks, exec_results, manifest_store>>

storeVars == <<persistedVars, result_cache>>

\* What the handler of `request` neither reads nor writes.
extraVars == <<resent, capability, other>>

blameVars ==
    <<trusted_block, loop_cnt, state_blame_vec, receipt_blame_vec,
      bloom_blame_vec, block_hash, exec_lookups, parent_lookups>>

receiptVars ==
    <<epoch_receipts, epoch_hash, iter, block, epoch_list, idx, read_guards,
      write_guards, epochs_processed>>

vars ==
    <<storeVars, request, pc, manifest, blame_states, block_receipts, blameVars,
      receiptVars, responses, extraVars>>

\* --------------------------------------------------- the collaborators

block_header_by_hash(hash) == headers[hash]

consensus_graph_execution_info_from_db(hash) == exec_info[hash]

block_hashes_by_epoch(height) ==
    IF height \in DOMAIN epoch_blocks THEN epoch_blocks[height] ELSE NoneVal

block_execution_result_by_hash_with_epoch(hash, epoch) ==
    IF <<hash, epoch>> \in exec_results THEN Some(ExecResultOf(hash, epoch))
    ELSE NoneVal

DefaultManifest == [chunks |-> "empty"]

RangedManifestLoad(checkpoint, start_chunk) ==
    IF manifest_store = "OkSome"
    THEN [chunks |-> <<"manifest", checkpoint, start_chunk>>]
    ELSE DefaultManifest

\* The second handler before it is started.
OtherIdle ==
    [pc |-> "idle", anchor |-> 0, trusted_block |-> NoneVal, loop_cnt |-> 0,
     state_blame_vec |-> <<>>, receipt_blame_vec |-> <<>>, bloom_blame_vec |-> <<>>,
     block_hash |-> 0, blame_states |-> NoneVal]

\* ---------------------------------------------------------------- Init

Init ==
    /\ \E f \in Faults, blame \in BlameCounts :
          /\ headers = StoreHeaders(f, blame)
          /\ exec_info = StoreExecInfo(f)
          /\ epoch_blocks = StoreEpochBlocks(f)
          /\ exec_results = StoreResults(f)
    /\ manifest_store \in ManifestOutcomes
    /\ request \in Requests
    /\ pc = "handle"
    /\ manifest = DefaultManifest
    /\ blame_states = NoneVal
    /\ block_receipts = NoneVal
    /\ trusted_block = NoneVal
    /\ loop_cnt = 0
    /\ state_blame_vec = <<>>
    /\ receipt_blame_vec = <<>>
    /\ bloom_blame_vec = <<>>
    /\ block_hash = 0
    /\ epoch_receipts = <<>>
    /\ epoch_hash = 0
    /\ iter = 0
    /\ block = NoneVal
    /\ epoch_list = <<>>
    /\ idx = 0
    /\ read_guards = 0
    /\ write_guards = 0
    /\ exec_lookups = 0
    /\ parent_lookups = 0
    /\ epochs_processed = 0
    /\ responses = <<>>
    /\ result_cache = {}
    /\ resent = NoneVal
    /\ capability = NoneVal
    /\ other = OtherIdle

\* -------------------------------------------------------------- handle

\* handle, lines 38-44: the manifest, or the default one when the load yields
\* Ok(None) or Err.
HandleLoadManifest ==
    /\ pc = "handle"
    /\ manifest' = RangedManifestLoad(request.checkpoint, request.start_chunk)
    /\ pc' = "blame_trusted"
    /\ UNCHANGED <<storeVars, request, blame_states, block_receipts, blameVars,
                   receiptVars, responses>>
    /\ UNCHANGED extraVars

\* ---------------------------------------------------- get_blame_states

\* The height check with the comparison turned around.
InvalidAnchorReversed(trusted, checkpoint_block) ==
    trusted.height > checkpoint_block.height

\* Line 155: the request is invalid when the anchor lies below the checkpoint.
InvalidAnchor(trusted, checkpoint_block) ==
    trusted.height < checkpoint_block.height

\* LoopCnt without the reward window: the genesis formula on every checkpoint.
LoopCntNoWindow(trusted, checkpoint_block) ==
    LET base == trusted.height - checkpoint_block.height + 1
    IN  IF base < trusted.blame + 1 THEN trusted.blame + 1 ELSE base

\* LoopCnt without the genesis case: the reward window on every checkpoint.
LoopCntNoGenesis(trusted, checkpoint_block) ==
    LET base == trusted.height - checkpoint_block.height + REWARD_EPOCH_COUNT
    IN  IF base < trusted.blame + 1 THEN trusted.blame + 1 ELSE base

\* Lines 162-170: the number of entries the walk collects.
LoopCnt(trusted, checkpoint_block) ==
    LET base == IF checkpoint_block.height = 0
                THEN trusted.height - checkpoint_block.height + 1
                ELSE trusted.height - checkpoint_block.height + REWARD_EPOCH_COUNT
    IN  IF base < trusted.blame + 1 THEN trusted.blame + 1 ELSE base

\* An exit test that lets the walk run one entry past loop_cnt.
WalkCompleteLate(vec, cnt) == Len(vec) = cnt + 1

\* Line 188: the walk is complete.
WalkComplete(vec, cnt) == Len(vec) = cnt

\* A walk that stays on the block whose header it resolved.
NextBlockHashSelf(header) == header.hash

\* Line 194: the block the walk visits next.
NextBlockHash(header) == header.parent_hash

\* A return that hands out what the walk had collected when it failed.
BlameReturnPartial(result) ==
    /\ blame_states' =
          IF IsNone(result)
          THEN Some(<<state_blame_vec, receipt_blame_vec, bloom_blame_vec>>)
          ELSE result
    /\ pc' = "receipts_enter"

\* get_blame_states returns: None on the failure paths, Some(vectors) on line 208.
BlameReturn(result) ==
    /\ blame_states' = result
    /\ pc' = "receipts_enter"

\* An exit that first resolves the header of the block it appended last.
WalkExitAfterHeader(states, receipts, blooms) ==
    IF IsNone(block_header_by_hash(block_hash))
    THEN BlameReturn(NoneVal)
    ELSE BlameReturn(Some(<<states, receipts, blooms>>))

\* Lines 188-190 and 208: the loop is left as soon as the last entry is
\* appended, and the three vectors are returned.
WalkExit(states, receipts, blooms) ==
    BlameReturn(Some(<<states, receipts, blooms>>))

\* Lines 145-149: the anchor of the request and its header.
BlameLookupTrusted ==
    /\ pc = "blame_trusted"
    /\ IF IsNone(request.trusted_blame_block)
       THEN /\ BlameReturn(NoneVal)
            /\ UNCHANGED trusted_block
       ELSE LET found == block_header_by_hash(Unwrap(request.trusted_blame_block))
            IN  IF IsNone(found)
                THEN /\ BlameReturn(NoneVal)
                     /\ UNCHANGED trusted_block
                ELSE /\ trusted_block' = found
                     /\ pc' = "blame_checkpoint"
                     /\ UNCHANGED blame_states
    /\ UNCHANGED <<storeVars, request, manifest, block_receipts, loop_cnt,
                   state_blame_vec, receipt_blame_vec, bloom_blame_vec, block_hash,
                   exec_lookups, parent_lookups, receiptVars, responses>>
    /\ UNCHANGED extraVars

\* Lines 150-175: the checkpoint's header, the height check, loop_cnt and the
\* start of the walk.
BlameLookupCheckpoint ==
    /\ pc = "blame_checkpoint"
    /\ LET found == block_header_by_hash(request.checkpoint)
           trusted == Unwrap(trusted_block)
       IN  IF IsNone(found) \/ InvalidAnchor(trusted, Unwrap(found))
           THEN /\ BlameReturn(NoneVal)
                /\ UNCHANGED <<loop_cnt, block_hash>>
           ELSE /\ loop_cnt' = LoopCnt(trusted, Unwrap(found))
                /\ block_hash' = trusted.hash
                /\ pc' = "blame_exec"
                /\ UNCHANGED blame_states
    /\ UNCHANGED <<storeVars, request, manifest, block_receipts, trusted_block,
                   state_blame_vec, receipt_blame_vec, bloom_blame_vec,
                   exec_lookups, parent_lookups, receiptVars, responses>>
    /\ UNCHANGED extraVars

\* Lines 177-190 and 202-205: the execution record of block_hash is appended
\* to the three vectors; the walk ends when loop_cnt entries are collected.
BlameExecLookup ==
    /\ pc = "blame_exec"
    /\ exec_lookups' = exec_lookups + 1
    /\ LET found == consensus_graph_execution_info_from_db(block_hash)
       IN  IF IsNone(found)
           THEN /\ BlameReturn(NoneVal)
                /\ UNCHANGED <<state_blame_vec, receipt_blame_vec, bloom_blame_vec>>
           ELSE LET info == Unwrap(found)
                    states == Append(state_blame_vec, info.original_deferred_state_root)
                    receipts == Append(receipt_blame_vec,
                                       info.original_deferred_receipt_root)
                    blooms == Append(bloom_blame_vec,
                                     info.original_deferred_logs_bloom_hash)
                IN  /\ state_blame_vec' = states
                    /\ receipt_blame_vec' = receipts
                    /\ bloom_blame_vec' = blooms
                    /\ IF WalkComplete(states, loop_cnt)
                       THEN WalkExit(states, receipts, blooms)
                       ELSE /\ pc' = "blame_parent"
                            /\ UNCHANGED blame_states
    /\ UNCHANGED <<storeVars, request, manifest, block_receipts, trusted_block,
                   loop_cnt, block_hash, parent_lookups, receiptVars, responses>>
    /\ UNCHANGED extraVars

\* Lines 191-201: the walk moves to the parent of block_hash.
BlameParentLookup ==
    /\ pc = "blame_parent"
    /\ parent_lookups' = parent_lookups + 1
    /\ LET found == block_header_by_hash(block_hash)
       IN  IF IsNone(found)
           THEN /\ BlameReturn(NoneVal)
                /\ UNCHANGED block_hash
           ELSE /\ block_hash' = NextBlockHash(Unwrap(found))
                /\ pc' = "blame_exec"
                /\ UNCHANGED blame_states
    /\ UNCHANGED <<storeVars, request, manifest, block_receipts, trusted_block,
                   loop_cnt, state_blame_vec, receipt_blame_vec, bloom_blame_vec,
                   exec_lookups, receiptVars, responses>>
    /\ UNCHANGED extraVars

\* -------------------------------------------------- get_block_receipts

\* A for loop that runs one iteration too few.
LoopContinuesShort(i) == i < REWARD_EPOCH_COUNT - 1

\* A for loop that runs one iteration too many.
LoopContinuesInclusive(i) == i <= REWARD_EPOCH_COUNT

\* Line 87: the for loop runs while fewer than REWARD_EPOCH_COUNT iterations
\* were begun.
LoopContinues(i) == i < REWARD_EPOCH_COUNT

\* Line 124: the epoch just collected is the original genesis.
ReachedGenesis(header) == header.height = 0

\* Lines 101-109: the execution result of a block of the epoch, looked up
\* under the epoch's hash.
EpochResultLookup(hash, epoch) ==
    block_execution_result_by_hash_with_epoch(hash, epoch)

\* A lookup that asks data_man to cache what it finds.
UpdateCacheOn == TRUE

\* Line 108: the update_cache argument of the lookup.
UpdateCache == FALSE

\* data_man's cache after a lookup: a result that was found is kept in memory
\* when the caller asks for it, and the cache is left alone otherwise.
CacheAfterLookup(hash, epoch, found, update_cache) ==
    IF update_cache /\ IsSome(found)
    THEN result_cache \cup {<<hash, epoch>>}
    ELSE result_cache

\* Lines 91-96: consensus.inner.read() takes a read guard, which lives until
\* the match statement of lines 91-122 ends.
AcquireInner ==
    /\ read_guards' = read_guards + 1
    /\ UNCHANGED write_guards

\* A guard that outlives the match statement.
ReleaseInnerLeak == UNCHANGED <<read_guards, write_guards>>

\* Line 122: the match statement ends and its guard is dropped.
ReleaseInner ==
    /\ read_guards' = read_guards - 1
    /\ UNCHANGED write_guards

\* A return that hands out the receipts collected before the failure.
ReceiptsReturnPartial(result) ==
    /\ block_receipts' = IF IsNone(result) THEN Some(epoch_receipts) ELSE result
    /\ read_guards' = 0
    /\ write_guards' = 0
    /\ pc' = "send"

\* get_block_receipts returns: None on the failure paths, Some(epoch_receipts)
\* on line 136. Every guard on consensus.inner is dropped by then.
ReceiptsReturn(result) ==
    /\ block_receipts' = result
    /\ read_guards' = 0
    /\ write_guards' = 0
    /\ pc' = "send"

\* Lines 85-86.
ReceiptsEnter ==
    /\ pc = "receipts_enter"
    /\ epoch_receipts' = <<>>
    /\ epoch_hash' = request.checkpoint
    /\ pc' = "receipts_head"
    /\ UNCHANGED <<storeVars, request, manifest, blame_states, block_receipts,
                   blameVars, iter, block, epoch_list, idx, read_guards,
                   write_guards, epochs_processed, responses>>
    /\ UNCHANGED extraVars

\* Lines 87 and 136: the for loop is exhausted.
ReceiptsLoopExit ==
    /\ pc = "receipts_head"
    /\ ~LoopContinues(iter)
    /\ ReceiptsReturn(Some(epoch_receipts))
    /\ UNCHANGED <<storeVars, request, manifest, blame_states, blameVars,
                   epoch_receipts, epoch_hash, iter, block, epoch_list, idx,
                   epochs_processed, responses>>
    /\ UNCHANGED extraVars

\* Lines 87-89 and 128-134: an iteration begins with the header of epoch_hash.
ReceiptsHeaderLookup ==
    /\ pc = "receipts_head"
    /\ LoopContinues(iter)
    /\ iter' = iter + 1
    /\ LET found == block_header_by_hash(epoch_hash)
       IN  IF IsNone(found)
           THEN /\ ReceiptsReturn(NoneVal)
                /\ UNCHANGED block
           ELSE /\ block' = found
                /\ pc' = "receipts_resolve"
                /\ UNCHANGED <<block_receipts, read_guards, write_guards>>
    /\ UNCHANGED <<storeVars, request, manifest, blame_states, blameVars,
                   epoch_receipts, epoch_hash, epoch_list, idx, epochs_processed,
                   responses>>
    /\ UNCHANGED extraVars

\* Lines 91-99 and 119-121: under a read guard on consensus.inner, the ordered
\* executable blocks of the epoch at the header's height.
ReceiptsResolveEpoch ==
    /\ pc = "receipts_resolve"
    /\ LET resolved == block_hashes_by_epoch(Unwrap(block).height)
       IN  IF IsNone(resolved)
           THEN /\ ReceiptsReturn(NoneVal)
                /\ UNCHANGED <<epoch_list, idx>>
           ELSE /\ epoch_list' = Unwrap(resolved)
                /\ idx' = 1
                /\ AcquireInner
                /\ pc' = "receipts_result"
                /\ UNCHANGED block_receipts
    /\ UNCHANGED <<storeVars, request, manifest, blame_states, blameVars,
                   epoch_receipts, epoch_hash, iter, block, epochs_processed,
                   responses>>
    /\ UNCHANGED extraVars

\* Lines 100-117: the execution result of the next block of the epoch.
ReceiptsResultLookup ==
    /\ pc = "receipts_result"
    /\ idx <= Len(epoch_list)
    /\ LET found == EpochResultLookup(epoch_list[idx], epoch_hash)
       IN  /\ IF IsNone(found)
              THEN /\ ReceiptsReturn(NoneVal)
                   /\ UNCHANGED <<epoch_receipts, idx>>
              ELSE /\ epoch_receipts' = Append(epoch_receipts, Unwrap(found))
                   /\ idx' = idx + 1
                   /\ UNCHANGED <<pc, block_receipts, read_guards, write_guards>>
           /\ result_cache' =
                 CacheAfterLookup(epoch_list[idx], epoch_hash, found, UpdateCache)
    /\ UNCHANGED <<persistedVars, request, manifest, blame_states, blameVars,
                   epoch_hash, iter, block, epoch_list, epochs_processed, responses>>
    /\ UNCHANGED extraVars

\* Lines 118-127: the epoch is collected and the guard dropped; the walk ends
\* at genesis and otherwise moves to the parent epoch.
ReceiptsEpochDone ==
    /\ pc = "receipts_result"
    /\ idx > Len(epoch_list)
    /\ epochs_processed' = epochs_processed + 1
    /\ IF ReachedGenesis(Unwrap(block))
       THEN /\ ReceiptsReturn(Some(epoch_receipts))
            /\ UNCHANGED epoch_hash
       ELSE /\ epoch_hash' = Unwrap(block).parent_hash
            /\ ReleaseInner
            /\ pc' = "receipts_head"
            /\ UNCHANGED block_receipts
    /\ UNCHANGED <<storeVars, request, manifest, blame_states, blameVars,
                   epoch_receipts, iter, block, epoch_list, idx, responses>>
    /\ UNCHANGED extraVars

\* ------------------------------------------------------ the response

\* Option::unwrap_or_default.
UnwrapOrDefault(o, default) == IF IsSome(o) THEN Unwrap(o) ELSE default

\* A response whose request_id is left at its default.
ResponseDefaultId(req, m, blame, receipts) ==
    LET vecs == UnwrapOrDefault(blame, <<<<>>, <<>>, <<>>>>)
    IN  [request_id |-> 0,
         checkpoint |-> req.checkpoint,
         manifest |-> m,
         state_blame_vec |-> vecs[1],
         receipt_blame_vec |-> vecs[2],
         bloom_blame_vec |-> vecs[3],
         block_receipts |-> UnwrapOrDefault(receipts, <<>>)]

\* A response that carries receipts only with a blame vector.
ResponseAllOrNothing(req, m, blame, receipts) ==
    LET vecs == UnwrapOrDefault(blame, <<<<>>, <<>>, <<>>>>)
    IN  [request_id |-> req.request_id,
         checkpoint |-> req.checkpoint,
         manifest |-> m,
         state_blame_vec |-> vecs[1],
         receipt_blame_vec |-> vecs[2],
         bloom_blame_vec |-> vecs[3],
         block_receipts |->
             IF IsSome(blame) THEN UnwrapOrDefault(receipts, <<>>) ELSE <<>>]

\* Lines 49-57: the response built from the request and the three results.
Response(req, m, blame, receipts) ==
    LET vecs == UnwrapOrDefault(blame, <<<<>>, <<>>, <<>>>>)
    IN  [request_id |-> req.request_id,
         checkpoint |-> req.checkpoint,
         manifest |-> m,
         state_blame_vec |-> vecs[1],
         receipt_blame_vec |-> vecs[2],
         bloom_blame_vec |-> vecs[3],
         block_receipts |-> UnwrapOrDefault(receipts, <<>>)]

SendResponse ==
    /\ pc = "send"
    /\ responses' = Append(responses,
                           Response(request, manifest, blame_states, block_receipts))
    /\ pc' = "done"
    /\ UNCHANGED <<storeVars, request, manifest, blame_states, block_receipts,
                   blameVars, receiptVars>>
    /\ UNCHANGED extraVars

Next ==
    \/ HandleLoadManifest
    \/ BlameLookupTrusted
    \/ BlameLookupCheckpoint
    \/ BlameExecLookup
    \/ BlameParentLookup
    \/ ReceiptsEnter
    \/ ReceiptsLoopExit
    \/ ReceiptsHeaderLookup
    \/ ReceiptsResolveEpoch
    \/ ReceiptsResultLookup
    \/ ReceiptsEpochDone
    \/ SendResponse

Spec == Init /\ [][Next]_vars

\* ------------------------------------------------------- the requester

\* Lines 62-69: a request for the manifest of a checkpoint, with its anchor.
RequestNew(checkpoint, trusted_blame_block) ==
    [request_id |-> 0,
     checkpoint |-> checkpoint,
     start_chunk |-> NoneVal,
     trusted_blame_block |-> Some(trusted_blame_block)]

\* Lines 71-80: a request for the manifest from a chunk on, with no anchor.
RequestNewWithStartChunk(checkpoint, start_chunk) ==
    [request_id |-> 0,
     checkpoint |-> checkpoint,
     start_chunk |-> Some(start_chunk),
     trusted_blame_block |-> NoneVal]

\* The requests a node holds: built by one of the two constructors, or with
\* a request id bound and any combination of the optional fields.
HeldRequests ==
    {RequestNew(c, a) : c \in Hashes, a \in Hashes}
        \cup {RequestNewWithStartChunk(c, "chunk") : c \in Hashes}
        \cup Requests

\* A resend that rebuilds the request from its checkpoint and start chunk.
ResendWithoutAnchor(req) == Some([req EXCEPT !.trusted_blame_block = NoneVal])

\* Lines 227-229: resend is Some of a clone of the request.
Resend(req) == Some(req)

\* DynamicCapability::ServeCheckpoint with its optional checkpoint.
ServeCheckpoint(checkpoint) == <<"ServeCheckpoint", checkpoint>>

\* A capability that names no checkpoint.
RequiredCapabilityAnyCheckpoint(req) == Some(ServeCheckpoint(NoneVal))

\* Lines 231-235: the capability a peer must have to be sent the request.
RequiredCapability(req) == Some(ServeCheckpoint(Some(req.checkpoint)))

\* The request manager sends a request to a peer only when the peer
\* advertises the capability the request requires.
Eligible(advertised, required) ==
    IsSome(required) => Unwrap(required) \in advertised

\* The handler stands at `position` with its locals as they are before the
\* call, and nothing was sent or cached.
HandlerAt(position) ==
    /\ pc = position
    /\ manifest = DefaultManifest
    /\ blame_states = NoneVal
    /\ block_receipts = NoneVal
    /\ trusted_block = NoneVal
    /\ loop_cnt = 0
    /\ state_blame_vec = <<>>
    /\ receipt_blame_vec = <<>>
    /\ bloom_blame_vec = <<>>
    /\ block_hash = 0
    /\ epoch_receipts = <<>>
    /\ epoch_hash = 0
    /\ iter = 0
    /\ block = NoneVal
    /\ epoch_list = <<>>
    /\ idx = 0
    /\ read_guards = 0
    /\ write_guards = 0
    /\ exec_lookups = 0
    /\ parent_lookups = 0
    /\ epochs_processed = 0
    /\ responses = <<>>
    /\ result_cache = {}

NoFault == [kind |-> "none", a |-> 0, b |-> 0]

InitRequester ==
    /\ headers = StoreHeaders(NoFault, 0)
    /\ exec_info = StoreExecInfo(NoFault)
    /\ epoch_blocks = StoreEpochBlocks(NoFault)
    /\ exec_results = StoreResults(NoFault)
    /\ manifest_store = "OkSome"
    /\ request \in HeldRequests
    /\ HandlerAt("requester")
    /\ resent = NoneVal
    /\ capability = NoneVal
    /\ other = OtherIdle

handlerVars ==
    <<storeVars, pc, manifest, blame_states, block_receipts, blameVars,
      receiptVars, responses, other>>

\* The request timed out or its peer failed: it is cloned to be sent again.
RequesterResend ==
    /\ pc = "requester"
    /\ resent' = Resend(request)
    /\ UNCHANGED <<request, capability, handlerVars>>

\* A peer is chosen for the request.
RequesterCapability ==
    /\ pc = "requester"
    /\ capability' = Some([of |-> "original", cap |-> RequiredCapability(request)])
    /\ UNCHANGED <<request, resent, handlerVars>>

\* A peer is chosen for the resent request.
RequesterCapabilityResent ==
    /\ pc = "requester"
    /\ IsSome(resent)
    /\ capability' =
          Some([of |-> "resent", cap |-> RequiredCapability(Unwrap(resent))])
    /\ UNCHANGED <<request, resent, handlerVars>>

NextRequester ==
    \/ RequesterResend
    \/ RequesterCapability
    \/ RequesterCapabilityResent

SpecRequester == InitRequester /\ [][NextRequester]_vars

\* ----------------------------------- handlers beside each other and a writer

\* The blame count the writer stores with the header of block h.
WrittenBlame(h) == IF h = MaxChain THEN MaxChain - 1 ELSE 0

\* Two invocations of get_blame_states for the same checkpoint, the second
\* with the anchor of the first or with the checkpoint as its anchor, start
\* on a store that holds no block yet.
InitConcurrent ==
    /\ headers = [h \in AllHashes |-> NoneVal]
    /\ exec_info = [h \in AllHashes |-> NoneVal]
    /\ epoch_blocks = StoreEpochBlocks(NoFault)
    /\ exec_results = StoreResults(NoFault)
    /\ manifest_store = "OkSome"
    /\ request \in {RequestNew(c, a) : c \in PivotHashes, a \in PivotHashes}
    /\ HandlerAt("blame_trusted")
    /\ resent = NoneVal
    /\ capability = NoneVal
    /\ \E a \in {Unwrap(request.trusted_blame_block), request.checkpoint} :
          other = [OtherIdle EXCEPT !.pc = "blame_trusted", !.anchor = a]

mainVars ==
    <<request, pc, manifest, blame_states, block_receipts, blameVars,
      receiptVars, responses, resent, capability>>

\* The consensus layer stores the header of a block; a stored header is
\* never changed.
WriterAddHeader ==
    /\ \E h \in PivotHashes :
          /\ IsNone(headers[h])
          /\ headers' = [headers EXCEPT ![h] = ChainHeader(h, WrittenBlame(h))]
    /\ UNCHANGED <<exec_info, epoch_blocks, exec_results, manifest_store,
                   result_cache, mainVars, other>>

\* The execution layer stores the execution record of a block; a stored
\* record is never changed.
WriterAddExecInfo ==
    /\ \E h \in PivotHashes :
          /\ IsNone(exec_info[h])
          /\ exec_info' = [exec_info EXCEPT ![h] = Some(ExecInfoOf(h))]
    /\ UNCHANGED <<headers, epoch_blocks, exec_results, manifest_store,
                   result_cache, mainVars, other>>

\* The second invocation returns.
OtherReturn(result) ==
    other' = [other EXCEPT !.blame_states = result, !.pc = "done"]

\* Lines 145-149 in the second invocation.
OtherLookupTrusted ==
    /\ other.pc = "blame_trusted"
    /\ LET found == block_header_by_hash(other.anchor)
       IN  IF IsNone(found)
           THEN OtherReturn(NoneVal)
           ELSE other' = [other EXCEPT !.trusted_block = found,
                                       !.pc = "blame_checkpoint"]
    /\ UNCHANGED <<storeVars, mainVars>>

\* Lines 150-175 in the second invocation.
OtherLookupCheckpoint ==
    /\ other.pc = "blame_checkpoint"
    /\ LET found == block_header_by_hash(request.checkpoint)
           trusted == Unwrap(other.trusted_block)
       IN  IF IsNone(found) \/ InvalidAnchor(trusted, Unwrap(found))
           THEN OtherReturn(NoneVal)
           ELSE other' = [other EXCEPT !.loop_cnt = LoopCnt(trusted, Unwrap(found)),
                                       !.block_hash = trusted.hash,
                                       !.pc = "blame_exec"]
    /\ UNCHANGED <<storeVars, mainVars>>

\* Lines 177-190 and 202-208 in the second invocation.
OtherExecLookup ==
    /\ other.pc = "blame_exec"
    /\ LET found == consensus_graph_execution_info_from_db(other.block_hash)
       IN  IF IsNone(found)
           THEN OtherReturn(NoneVal)
           ELSE LET info == Unwrap(found)
                    states == Append(other.state_blame_vec,
                                     info.original_deferred_state_root)
                    receipts == Append(other.receipt_blame_vec,
                                       info.original_deferred_receipt_root)
                    blooms == Append(other.bloom_blame_vec,
                                     info.original_deferred_logs_bloom_hash)
                    done == WalkComplete(states, other.loop_cnt)
                IN  other' = [other EXCEPT
                                 !.state_blame_vec = states,
                                 !.receipt_blame_vec = receipts,
                                 !.bloom_blame_vec = blooms,
                                 !.blame_states =
                                     IF done THEN Some(<<states, receipts, blooms>>)
                                     ELSE NoneVal,
                                 !.pc = IF done THEN "done" ELSE "blame_parent"]
    /\ UNCHANGED <<storeVars, mainVars>>

\* Lines 191-201 in the second invocation.
OtherParentLookup ==
    /\ other.pc = "blame_parent"
    /\ LET found == block_header_by_hash(other.block_hash)
       IN  IF IsNone(found)
           THEN OtherReturn(NoneVal)
           ELSE other' = [other EXCEPT !.block_hash = NextBlockHash(Unwrap(found)),
                                       !.pc = "blame_exec"]
    /\ UNCHANGED <<storeVars, mainVars>>

NextConcurrent ==
    \/ BlameLookupTrusted
    \/ BlameLookupCheckpoint
    \/ BlameExecLookup
    \/ BlameParentLookup
    \/ OtherLookupTrusted
    \/ OtherLookupCheckpoint
    \/ OtherExecLookup
    \/ OtherParentLookup
    \/ WriterAddHeader
    \/ WriterAddExecInfo

SpecConcurrent == InitConcurrent /\ [][NextConcurrent]_vars

\* ------------------------------------------------------------------
\* What the claims speak of, read off the request and the store.

Max(a, b) == IF a >= b THEN a ELSE b

Min(a, b) == IF a <= b THEN a ELSE b

\* The header of the request's trusted anchor, if the request names one and
\* the store holds it.
ReqAnchor ==
    IF IsSome(request.trusted_blame_block)
    THEN headers[Unwrap(request.trusted_blame_block)]
    ELSE NoneVal

ReqCheckpoint == headers[request.checkpoint]

HeadersResolve == IsSome(ReqAnchor) /\ IsSome(ReqCheckpoint)

AnchorHeight == Unwrap(ReqAnchor).height

AnchorBlame == Unwrap(ReqAnchor).blame

CheckpointHeight == Unwrap(ReqCheckpoint).height

AllOfLength(a, b, c, n) == Len(a) = n /\ Len(b) = n /\ Len(c) = n

\* The three blame vectors of a response all have length n.
ResponseBlameOfLength(r, n) ==
    AllOfLength(r.state_blame_vec, r.receipt_blame_vec, r.bloom_blame_vec, n)

\* The three vectors get_blame_states returned all have length n.
ReturnedBlameOfLength(n) ==
    AllOfLength(Unwrap(blame_states)[1], Unwrap(blame_states)[2],
                Unwrap(blame_states)[3], n)

\* get_blame_states has returned.
BlameDone == pc \notin {"handle", "blame_trusted", "blame_checkpoint",
                        "blame_exec", "blame_parent"}

\* C1: with both headers resolved, the anchor at or above the checkpoint and
\* the checkpoint above genesis, a returned blame vector (and a non-empty one
\* in a response) has exactly
\* max(anchor.height - checkpoint.height + REWARD_EPOCH_COUNT, anchor.blame + 1)
\* entries in each of its three sequences.
C1_BlameLengthAboveGenesis ==
    (HeadersResolve /\ AnchorHeight >= CheckpointHeight /\ CheckpointHeight > 0) =>
        LET n == Max(AnchorHeight - CheckpointHeight + REWARD_EPOCH_COUNT,
                     AnchorBlame + 1)
        IN  /\ IsSome(blame_states) => ReturnedBlameOfLength(n)
            /\ \A i \in DOMAIN responses :
                  responses[i].state_blame_vec # <<>> =>
                      ResponseBlameOfLength(responses[i], n)

\* The scenario of the claim at the model's scale: an anchor above a checkpoint
\* above genesis, a blame count between 1 and the window, a vector in the
\* response.
C1_Witness ==
    /\ pc = "done"
    /\ HeadersResolve
    /\ CheckpointHeight > 0
    /\ AnchorHeight > CheckpointHeight
    /\ AnchorBlame > 0
    /\ AnchorBlame + 1 < AnchorHeight - CheckpointHeight + REWARD_EPOCH_COUNT
    /\ Len(responses[1].state_blame_vec) =
           AnchorHeight - CheckpointHeight + REWARD_EPOCH_COUNT

\* C2: with the checkpoint at height 0, a returned blame vector has exactly
\* max(anchor.height + 1, anchor.blame + 1) entries; and when the anchor is
\* genesis itself with blame 0 and its execution record stored, the vector is
\* returned and holds genesis's own three commitments.
C2_BlameLengthAtGenesis ==
    (HeadersResolve /\ CheckpointHeight = 0) =>
        /\ IsSome(blame_states) =>
              ReturnedBlameOfLength(Max(AnchorHeight + 1, AnchorBlame + 1))
        /\ \A i \in DOMAIN responses :
              responses[i].state_blame_vec # <<>> =>
                  ResponseBlameOfLength(responses[i],
                                        Max(AnchorHeight + 1, AnchorBlame + 1))
        /\ LET genesis == Unwrap(request.trusted_blame_block)
           IN  (/\ BlameDone
                /\ genesis = request.checkpoint
                /\ AnchorBlame = 0
                /\ IsSome(exec_info[genesis])) =>
                   blame_states =
                       Some(<<<<Unwrap(exec_info[genesis]).original_deferred_state_root>>,
                              <<Unwrap(exec_info[genesis]).original_deferred_receipt_root>>,
                              <<Unwrap(exec_info[genesis]).original_deferred_logs_bloom_hash>>>>)

\* The anchor is the genesis checkpoint itself and the response carries its
\* one triplet.
C2_Witness ==
    /\ pc = "done"
    /\ HeadersResolve
    /\ CheckpointHeight = 0
    /\ request.trusted_blame_block = Some(request.checkpoint)
    /\ AnchorBlame = 0
    /\ Len(responses[1].state_blame_vec) = 1

\* The hash reached from h by following i parent links; -1 when the header of
\* a block on the way is not stored.
RECURSIVE Ancestor(_, _)
Ancestor(h, i) ==
    IF i = 0 THEN h
    ELSE LET a == Ancestor(h, i - 1)
         IN  IF a = -1 THEN -1
             ELSE IF IsNone(headers[a]) THEN -1
             ELSE Unwrap(headers[a]).parent_hash

\* The length the blame vector is to have (C1 and C2).
TargetLen ==
    IF CheckpointHeight = 0
    THEN Max(AnchorHeight - CheckpointHeight + 1, AnchorBlame + 1)
    ELSE Max(AnchorHeight - CheckpointHeight + REWARD_EPOCH_COUNT, AnchorBlame + 1)

\* The request passes the checks made before the walk.
WalkStarts == HeadersResolve /\ AnchorHeight >= CheckpointHeight

\* Among the TargetLen blocks from the anchor down, one has no execution
\* record, or one that is not the last has no header.
WalkHasGap ==
    \E i \in 0..(TargetLen - 1) :
        LET a == Ancestor(Unwrap(request.trusted_blame_block), i)
        IN  IF a = -1 THEN TRUE ELSE IsNone(exec_info[a])

BlameEmpty(r) ==
    /\ r.state_blame_vec = <<>>
    /\ r.receipt_blame_vec = <<>>
    /\ r.bloom_blame_vec = <<>>

\* C3: the blame vectors of every response are all empty or all of the target
\* length, and they are all empty when a header or execution-record lookup of
\* the walk fails.
C3_BlameAllOrNothing ==
    \A i \in DOMAIN responses :
        /\ \/ BlameEmpty(responses[i])
           \/ WalkStarts /\ ResponseBlameOfLength(responses[i], TargetLen)
        /\ (WalkStarts /\ WalkHasGap) => BlameEmpty(responses[i])

\* A walk that had collected entries when a lookup failed, answered with
\* empty vectors.
C3_Witness ==
    /\ pc = "done"
    /\ WalkStarts
    /\ WalkHasGap
    /\ Len(state_blame_vec) >= 2
    /\ BlameEmpty(responses[1])

\* C4: when the anchor's height is below the checkpoint's, loop_cnt is never
\* computed and no step of the walk is made, get_blame_states returns None,
\* the handler still sends its response, and the response's blame vectors are
\* empty.
C4_AnchorBelowCheckpoint ==
    (HeadersResolve /\ AnchorHeight < CheckpointHeight) =>
        /\ loop_cnt = 0
        /\ exec_lookups = 0
        /\ parent_lookups = 0
        /\ state_blame_vec = <<>> /\ receipt_blame_vec = <<>> /\ bloom_blame_vec = <<>>
        /\ pc \notin {"blame_exec", "blame_parent"}
        /\ IsNone(blame_states)
        /\ pc = "done" => Len(responses) = 1
        /\ \A i \in DOMAIN responses : BlameEmpty(responses[i])

\* A request whose anchor lies below its checkpoint, answered.
C4_Witness ==
    /\ pc = "done"
    /\ HeadersResolve
    /\ AnchorHeight < CheckpointHeight
    /\ Len(responses) = 1
    /\ BlameEmpty(responses[1])

\* C5: the handler sends one response and no more, is never stuck before it
\* has sent it, and the response carries the request's request_id and
\* checkpoint, with the default manifest when the load gave Ok(None) or Err.
C5_OneResponseEchoesRequest ==
    /\ Len(responses) <= 1
    /\ (pc = "done") <=> (Len(responses) = 1)
    /\ pc # "done" => ENABLED Next
    /\ \A i \in DOMAIN responses :
          /\ responses[i].request_id = request.request_id
          /\ responses[i].checkpoint = request.checkpoint
          /\ manifest_store # "OkSome" => responses[i].manifest = DefaultManifest

\* A response sent although the manifest load failed and neither the blame
\* vectors nor the receipts could be built, for a request carrying both a
\* start chunk and an anchor.
C5_Witness ==
    /\ pc = "done"
    /\ manifest_store = "Err"
    /\ IsSome(request.start_chunk)
    /\ IsSome(request.trusted_blame_block)
    /\ IsNone(blame_states)
    /\ IsNone(block_receipts)
    /\ Len(responses) = 1
    /\ responses[1].request_id = request.request_id

\* get_block_receipts is running.
InReceipts == pc \in {"receipts_head", "receipts_resolve", "receipts_result"}

\* Where an iteration of the receipt loop stands: the header is resolved (3),
\* the epoch's results are being fetched (2), the iteration is over (1).
ReceiptsPhase(p) ==
    IF p = "receipts_resolve" THEN 3 ELSE IF p = "receipts_result" THEN 2 ELSE 1

\* Results of the current epoch still to fetch.
ReceiptsRemaining == Len(epoch_list) + 1 - idx

\* A step of the receipt walk begins the next iteration or moves on within
\* the current one.
ReceiptsAdvances ==
    \/ iter' = iter + 1
    \/ /\ iter' = iter
       /\ ReceiptsPhase(pc') < ReceiptsPhase(pc)
    \/ /\ iter' = iter
       /\ pc' = pc
       /\ pc = "receipts_result"
       /\ ReceiptsRemaining' < ReceiptsRemaining
       /\ ReceiptsRemaining' >= 0

\* The bounds of the receipt walk: no more than REWARD_EPOCH_COUNT iterations
\* begun, each on the next parent of the checkpoint; no iteration after an
\* epoch of height 0; a successful walk of fewer than REWARD_EPOCH_COUNT epochs
\* ended at height 0.
ReceiptsBounded ==
    /\ iter <= REWARD_EPOCH_COUNT
    /\ epochs_processed <= iter
    /\ pc = "receipts_head" =>
          /\ epochs_processed = iter
          /\ epoch_hash = Ancestor(request.checkpoint, iter)
          /\ iter > 0 => Unwrap(block).height # 0
    /\ pc \in {"receipts_resolve", "receipts_result"} =>
          /\ epochs_processed = iter - 1
          /\ epoch_hash = Ancestor(request.checkpoint, iter - 1)
          /\ block = headers[epoch_hash]
    /\ (pc \in {"send", "done"} /\ IsSome(block_receipts)) =>
          /\ epochs_processed = iter
          /\ epochs_processed < REWARD_EPOCH_COUNT => Unwrap(block).height = 0

\* C6: the receipt collection processes at most REWARD_EPOCH_COUNT epochs,
\* from the checkpoint along the parent hashes, stops right after an epoch of
\* height 0, and every step of it either returns or advances a walk that has
\* finitely many steps.
C6_ReceiptsBoundedWalk ==
    /\ []ReceiptsBounded
    /\ [][InReceipts => (pc' = "send" \/ (InReceipts' /\ ReceiptsAdvances))]_vars
    /\ [][(pc = "receipts_result" /\ idx > Len(epoch_list)
              /\ Unwrap(block).height = 0) => pc' = "send"]_vars
    /\ [](InReceipts => ENABLED Next)

\* A collection that reached genesis before the window was used up.
C6_Witness ==
    /\ pc = "done"
    /\ IsSome(block_receipts)
    /\ epochs_processed >= 2
    /\ epochs_processed < REWARD_EPOCH_COUNT
    /\ Unwrap(block).height = 0

\* Within the k epochs from h down (ending early after an epoch of height 0)
\* a header is missing, the resolver fails on an epoch's height, or a block of
\* an epoch has no result stored under the epoch's hash.
RECURSIVE ReceiptsGap(_, _)
ReceiptsGap(h, k) ==
    IF k = 0 THEN FALSE
    ELSE IF IsNone(headers[h]) THEN TRUE
    ELSE LET header == Unwrap(headers[h])
         IN  IF header.height \notin DOMAIN epoch_blocks THEN TRUE
             ELSE IF IsNone(epoch_blocks[header.height]) THEN TRUE
             ELSE IF \E i \in DOMAIN Unwrap(epoch_blocks[header.height]) :
                        <<Unwrap(epoch_blocks[header.height])[i], h>> \notin exec_results
             THEN TRUE
             ELSE IF header.height = 0 THEN FALSE
             ELSE ReceiptsGap(header.parent_hash, k - 1)

\* get_block_receipts has returned.
ReceiptsDone == pc \in {"send", "done"}

\* C7: when a header, an epoch resolution or an execution result of the
\* window is missing, get_block_receipts returns None and block_receipts of
\* the response is empty, whatever was collected before.
C7_ReceiptsAllOrNothing ==
    ReceiptsGap(request.checkpoint, REWARD_EPOCH_COUNT) =>
        /\ ReceiptsDone => IsNone(block_receipts)
        /\ \A i \in DOMAIN responses : responses[i].block_receipts = <<>>

\* Receipts of newer epochs were collected when an older epoch failed, and
\* the response carries none.
C7_Witness ==
    /\ pc = "done"
    /\ ReceiptsGap(request.checkpoint, REWARD_EPOCH_COUNT)
    /\ Len(epoch_receipts) >= 2
    /\ responses[1].block_receipts = <<>>

\* No stored parent link leads to a block that is not strictly lower.
WellLinked ==
    \A h \in AllHashes :
        IsSome(headers[h]) =>
            LET p == Unwrap(headers[h]).parent_hash
            IN  IsSome(headers[p]) =>
                    Unwrap(headers[p]).height < Unwrap(headers[h]).height

\* Entry i of the three sequences is the execution record of the block i - 1
\* parent links below the anchor.
ParentLinked(states, receipts, blooms) ==
    \A i \in 1..Len(states) :
        LET a == Ancestor(Unwrap(request.trusted_blame_block), i - 1)
        IN  /\ a # -1
            /\ IsSome(exec_info[a])
            /\ states[i] = Unwrap(exec_info[a]).original_deferred_state_root
            /\ receipts[i] = Unwrap(exec_info[a]).original_deferred_receipt_root
            /\ blooms[i] = Unwrap(exec_info[a]).original_deferred_logs_bloom_hash

NoRepeat(seq) == \A i, j \in DOMAIN seq : i # j => seq[i] # seq[j]

\* C8: a returned blame vector has the target length and its entry i holds the
\* three commitments of the execution record of the block reached from the
\* anchor by i parent links (counting from 0); where the stored parent links
\* descend, no block occurs twice.
C8_BlameParentLinked ==
    /\ IsSome(blame_states) =>
          LET v == Unwrap(blame_states)
          IN  /\ ReturnedBlameOfLength(TargetLen)
              /\ ParentLinked(v[1], v[2], v[3])
              /\ WellLinked => NoRepeat(v[1]) /\ NoRepeat(v[2]) /\ NoRepeat(v[3])
    /\ \A i \in DOMAIN responses :
          ~BlameEmpty(responses[i]) =>
              /\ ResponseBlameOfLength(responses[i], TargetLen)
              /\ ParentLinked(responses[i].state_blame_vec,
                              responses[i].receipt_blame_vec,
                              responses[i].bloom_blame_vec)

\* A vector of several blocks, sent.
C8_Witness ==
    /\ pc = "done"
    /\ WellLinked
    /\ Len(responses[1].state_blame_vec) >= 3
    /\ responses[1].state_blame_vec[1] =
           StateRoot(Unwrap(request.trusted_blame_block))
    /\ responses[1].state_blame_vec[3] =
           StateRoot(Ancestor(Unwrap(request.trusted_blame_block), 2))

\* The results of the blocks the resolver returns for the epoch of hash h, in
\* the resolver's order, each under h.
EpochResults(h) ==
    LET list == Unwrap(epoch_blocks[Unwrap(headers[h]).height])
    IN  [i \in DOMAIN list |-> ExecResultOf(list[i], h)]

\* The receipts of the k epochs from h down along the parent hashes, newest
\* first, ending with the epoch of height 0 when it is reached.
RECURSIVE ExpectedReceipts(_, _)
ExpectedReceipts(h, k) ==
    IF k = 0 THEN <<>>
    ELSE IF IsNone(headers[h]) THEN <<"no header">>
    ELSE IF Unwrap(headers[h]).height \notin DOMAIN epoch_blocks THEN <<"no epoch">>
    ELSE IF IsNone(epoch_blocks[Unwrap(headers[h]).height]) THEN <<"no epoch">>
    ELSE EpochResults(h) \o
            (IF Unwrap(headers[h]).height = 0 THEN <<>>
             ELSE ExpectedReceipts(Unwrap(headers[h]).parent_hash, k - 1))

\* Every stored parent link leads one height down.
WellFormedChain ==
    \A h \in AllHashes :
        IsSome(headers[h]) =>
            LET p == Unwrap(headers[h]).parent_hash
            IN  IsSome(headers[p]) =>
                    Unwrap(headers[p]).height = Unwrap(headers[h]).height - 1

\* C9: a successful receipt collection returns the concatenation, newest epoch
\* first, of the results of the epochs checkpoint, parent(checkpoint), ... in
\* the resolver's order, each result under its epoch's hash; on a well-formed
\* chain these are min(REWARD_EPOCH_COUNT, checkpoint.height + 1) epochs.
C9_ReceiptsConcatenation ==
    /\ (ReceiptsDone /\ IsSome(block_receipts)) =>
          /\ Unwrap(block_receipts) =
                 ExpectedReceipts(request.checkpoint, REWARD_EPOCH_COUNT)
          /\ WellFormedChain =>
                 epochs_processed = Min(REWARD_EPOCH_COUNT, CheckpointHeight + 1)
    /\ \A i \in DOMAIN responses :
          responses[i].block_receipts # <<>> =>
              responses[i].block_receipts =
                  ExpectedReceipts(request.checkpoint, REWARD_EPOCH_COUNT)

\* A full window that ends with genesis's epoch: every epoch above genesis
\* gives two results, genesis one.
C9_Witness ==
    /\ pc = "done"
    /\ WellFormedChain
    /\ IsSome(block_receipts)
    /\ epochs_processed = REWARD_EPOCH_COUNT
    /\ Unwrap(block).height = 0
    /\ Len(responses[1].block_receipts) = 2 * REWARD_EPOCH_COUNT - 1
    /\ responses[1].block_receipts[1] =
           ExecResultOf(SideBlock(CheckpointHeight), request.checkpoint)

\* The loop of get_blame_states is running.
InBlameWalk == pc \in {"blame_exec", "blame_parent"}

\* The order of the handler's stages.
StageOf(p) ==
    CASE p = "handle" -> 0
      [] p = "blame_trusted" -> 1
      [] p = "blame_checkpoint" -> 2
      [] p \in {"blame_exec", "blame_parent"} -> 3
      [] p = "receipts_enter" -> 4
      [] p \in {"receipts_head", "receipts_resolve", "receipts_result"} -> 5
      [] p = "send" -> 6
      [] OTHER -> 7

\* The bounds of the blame walk: loop_cnt is the target length computed from
\* the two headers; no more than loop_cnt execution-record lookups and no more
\* header lookups than record lookups are made; the walk has returned exactly
\* when loop_cnt entries were appended or a lookup failed.
BlameBounded ==
    /\ (InBlameWalk \/ exec_lookups > 0) => (WalkStarts /\ loop_cnt = TargetLen)
    /\ exec_lookups <= loop_cnt
    /\ parent_lookups <= exec_lookups
    /\ pc = "blame_exec" =>
          /\ Len(state_blame_vec) = exec_lookups
          /\ parent_lookups = exec_lookups
          /\ exec_lookups < loop_cnt
    /\ pc = "blame_parent" =>
          /\ Len(state_blame_vec) = exec_lookups
          /\ parent_lookups = exec_lookups - 1
          /\ exec_lookups < loop_cnt
    /\ (BlameDone /\ IsSome(blame_states)) =>
          /\ Len(state_blame_vec) = loop_cnt
          /\ exec_lookups = loop_cnt
          /\ parent_lookups = loop_cnt - 1
    /\ (BlameDone /\ IsNone(blame_states) /\ exec_lookups > 0) =>
          /\ Len(state_blame_vec) < loop_cnt
          /\ parent_lookups = Len(state_blame_vec)
          /\ exec_lookups \in {Len(state_blame_vec), Len(state_blame_vec) + 1}

\* C10: on every store, cyclic ones included, the blame walk makes at most
\* loop_cnt execution-record lookups, with loop_cnt fixed before the walk; each
\* step of the walk returns or makes one more lookup; and every step of the
\* handler moves it to a later stage or advances one of its two bounded walks,
\* with a step enabled until the response is sent.
C10_BlameWalkTerminates ==
    /\ []BlameBounded
    /\ [][InBlameWalk =>
             /\ loop_cnt' = loop_cnt
             /\ \/ pc' = "receipts_enter"
                \/ /\ InBlameWalk'
                   /\ exec_lookups' + parent_lookups' =
                          exec_lookups + parent_lookups + 1]_vars
    /\ [][\/ StageOf(pc') > StageOf(pc)
          \/ /\ InBlameWalk /\ InBlameWalk'
             /\ exec_lookups' + parent_lookups' > exec_lookups + parent_lookups
          \/ /\ InReceipts /\ InReceipts'
             /\ ReceiptsAdvances /\ iter' <= REWARD_EPOCH_COUNT]_vars
    /\ [](pc # "done" => ENABLED Next)

\* A walk over a cyclic store that returned its vector: a block occurs twice.
C10_Witness ==
    /\ pc = "done"
    /\ ~WellLinked
    /\ IsSome(blame_states)
    /\ exec_lookups = loop_cnt
    /\ ~NoRepeat(state_blame_vec)

\* C11: the handler holds no write guard on consensus.inner at any time; it
\* holds one read guard exactly while it fetches the results of an epoch's
\* blocks, and none when an iteration begins, when get_block_receipts has
\* returned, or when the response is sent.
C11_ReadGuardsReleased ==
    /\ write_guards = 0
    /\ read_guards \in {0, 1}
    /\ (read_guards = 1) <=> (pc = "receipts_result")
    /\ pc \in {"receipts_head", "send", "done"} =>
          read_guards = 0 /\ write_guards = 0

\* An epoch was collected under its guard and the next iteration begins with
\* the guard released.
C11_Witness ==
    /\ pc = "receipts_head"
    /\ iter >= 1
    /\ epochs_processed >= 1
    /\ epoch_receipts # <<>>
    /\ read_guards = 0

\* C12: resend on any request yields a request, never None, whose checkpoint,
\* start chunk and trusted anchor are those of the original, and it leaves the
\* original request as it was.
C12_ResendIdentical ==
    /\ [](IsSome(resent) =>
            /\ Unwrap(resent).checkpoint = request.checkpoint
            /\ Unwrap(resent).start_chunk = request.start_chunk
            /\ Unwrap(resent).trusted_blame_block = request.trusted_blame_block)
    /\ [][/\ RequesterResend => IsSome(resent')
          /\ request' = request]_vars

\* A request with an anchor and a start chunk was resent.
C12_Witness ==
    /\ pc = "requester"
    /\ IsSome(resent)
    /\ IsSome(request.trusted_blame_block)
    /\ IsSome(request.start_chunk)
    /\ Unwrap(resent).trusted_blame_block = request.trusted_blame_block

\* C13: handling a request never changes what the node stores: every step of
\* handle leaves the headers, execution records, execution results, epoch
\* block sets and the manifest store as they were, and the results it reads
\* with update_cache = false leave the cache of data_man as it was; the
\* response is its one effect.
C13_HandleLeavesStore ==
    /\ [][storeVars' = storeVars]_vars
    /\ [](pc = "done" => Len(responses) = 1)
    /\ [](pc # "done" => responses = <<>>)

\* handle returned after it read execution results from the store.
C13_Witness ==
    /\ pc = "done"
    /\ Len(responses) = 1
    /\ epochs_processed >= 1
    /\ IsSome(block_receipts)
    /\ result_cache = {}

\* The request the capability in `capability` was computed for.
CapabilityRequest ==
    IF Unwrap(capability).of = "original" THEN request ELSE Unwrap(resent)

\* C14: required_capability of every request, and of a request obtained from
\* resend, is present and is the serve-checkpoint capability of exactly the
\* request's checkpoint, so that a peer that advertises it for another
\* checkpoint only is not eligible, and one that advertises it for this
\* checkpoint is.
C14_CapabilityOfCheckpoint ==
    IsSome(capability) =>
        LET required == Unwrap(capability).cap
        IN  /\ IsSome(required)
            /\ Unwrap(required) = ServeCheckpoint(Some(CapabilityRequest.checkpoint))
            /\ CapabilityRequest.checkpoint = request.checkpoint
            /\ Eligible({ServeCheckpoint(Some(request.checkpoint))}, required)
            /\ \A c \in Hashes \ {request.checkpoint} :
                  ~Eligible({ServeCheckpoint(Some(c)), ServeCheckpoint(NoneVal)},
                            required)

\* The capability of a resent request was computed.
C14_Witness ==
    /\ IsSome(capability)
    /\ Unwrap(capability).of = "resent"
    /\ IsSome(resent)
    /\ Unwrap(capability).cap = Some(ServeCheckpoint(Some(request.checkpoint)))

\* The store holds the header and the execution record of every block from
\* the anchor down to genesis, each one height below the one before.
CompleteToGenesis ==
    \A i \in 0..AnchorHeight :
        LET a == Ancestor(Unwrap(request.trusted_blame_block), i)
        IN  /\ a # -1
            /\ IsSome(headers[a])
            /\ Unwrap(headers[a]).height = AnchorHeight - i
            /\ IsSome(exec_info[a])

\* C15: get_blame_states returns an empty result only when information is
\* missing from the store or the request is malformed: on a well-formed store
\* that holds the header and the execution record of every block from the
\* anchor down to genesis, a request whose anchor is present and not below
\* the checkpoint gets a non-empty blame vector.
C15_CompleteStoreGivesVector ==
    (/\ BlameDone
     /\ WalkStarts
     /\ WellFormedChain
     /\ AnchorBlame <= AnchorHeight
     /\ CompleteToGenesis)
        => /\ IsSome(blame_states)
           /\ Unwrap(blame_states)[1] # <<>>

\* The walk of a request on a complete store asked for the execution record
\* of the parent of genesis, and returned None.
C15_Witness ==
    /\ BlameDone
    /\ WalkStarts
    /\ WellFormedChain
    /\ AnchorBlame <= AnchorHeight
    /\ CompleteToGenesis
    /\ CheckpointHeight >= 1
    /\ TargetLen > AnchorHeight + 1
    /\ exec_lookups = AnchorHeight + 2
    /\ IsNone(blame_states)

\* The execution records of the n blocks from h down along the parent hashes,
\* or None when one of them has no record or one that is not the last has no
\* header.
RECURSIVE CollectBlame(_, _)
CollectBlame(h, n) ==
    IF n = 0 THEN Some(<<>>)
    ELSE IF IsNone(exec_info[h]) THEN NoneVal
    ELSE IF n = 1 THEN Some(<<Unwrap(exec_info[h])>>)
    ELSE IF IsNone(headers[h]) THEN NoneVal
    ELSE LET rest == CollectBlame(Unwrap(headers[h]).parent_hash, n - 1)
         IN  IF IsNone(rest) THEN NoneVal
             ELSE Some(<<Unwrap(exec_info[h])>> \o Unwrap(rest))

\* What get_blame_states gives for an anchor and a checkpoint on the store as
\* it is: a function of the two hashes, the headers and the execution records.
BlameAlone(anchor, checkpoint) ==
    IF IsNone(anchor) THEN NoneVal
    ELSE IF IsNone(headers[Unwrap(anchor)]) \/ IsNone(headers[checkpoint]) THEN NoneVal
    ELSE LET t == Unwrap(headers[Unwrap(anchor)])
             c == Unwrap(headers[checkpoint])
             n == IF c.height = 0
                  THEN Max(t.height - c.height + 1, t.blame + 1)
                  ELSE Max(t.height - c.height + REWARD_EPOCH_COUNT, t.blame + 1)
             records == CollectBlame(Unwrap(anchor), n)
         IN  IF t.height < c.height \/ IsNone(records) THEN NoneVal
             ELSE Some(<<[i \in 1..n |-> Unwrap(records)[i].original_deferred_state_root],
                         [i \in 1..n |-> Unwrap(records)[i].original_deferred_receipt_root],
                         [i \in 1..n |->
                             Unwrap(records)[i].original_deferred_logs_bloom_hash]>>)

\* What get_block_receipts gives for a checkpoint on the store as it is: a
\* function of the hash, the headers, the epoch sets and the results.
ReceiptsAlone(checkpoint) ==
    IF ReceiptsGap(checkpoint, REWARD_EPOCH_COUNT) THEN NoneVal
    ELSE Some(ExpectedReceipts(checkpoint, REWARD_EPOCH_COUNT))

\* C16: the three soft-failing computations of handle are independent: the
\* blame vectors are what the anchor, the checkpoint, the headers and the
\* execution records alone give, block_receipts what the checkpoint, the
\* headers, the epoch sets and the results alone give, and the manifest what
\* the manifest store alone gives for the checkpoint and the start chunk; so a
\* failed or skipped blame reconstruction leaves receipts and manifest what
\* they would be otherwise, and a failed receipt collection leaves the blame
\* vectors and the manifest what they would be otherwise.
C16_SoftFailuresIndependent ==
    /\ BlameDone =>
          blame_states = BlameAlone(request.trusted_blame_block, request.checkpoint)
    /\ ReceiptsDone => block_receipts = ReceiptsAlone(request.checkpoint)
    /\ pc # "handle" =>
          manifest = RangedManifestLoad(request.checkpoint, request.start_chunk)
    /\ \A i \in DOMAIN responses :
          /\ responses[i].manifest =
                 RangedManifestLoad(request.checkpoint, request.start_chunk)
          /\ responses[i].block_receipts =
                 UnwrapOrDefault(ReceiptsAlone(request.checkpoint), <<>>)
          /\ <<responses[i].state_blame_vec, responses[i].receipt_blame_vec,
                responses[i].bloom_blame_vec>> =
                 UnwrapOrDefault(
                     BlameAlone(request.trusted_blame_block, request.checkpoint),
                     <<<<>>, <<>>, <<>>>>)

\* A request as new_with_start_chunk builds it, with no anchor, was answered
\* with no blame vectors, with the receipts of its checkpoint and with the
\* manifest.
C16_Witness ==
    /\ pc = "done"
    /\ IsNone(request.trusted_blame_block)
    /\ IsSome(request.start_chunk)
    /\ BlameEmpty(responses[1])
    /\ responses[1].block_receipts # <<>>
    /\ responses[1].manifest # DefaultManifest

\* C17: a successful blame walk of target length N makes exactly N
\* execution-record lookups and N - 1 parent-header lookups after the two
\* initial header lookups: it stops when the N-th record is appended and does
\* not resolve that block's header, so a walk whose N records and first N - 1
\* headers are stored succeeds whether or not the header, or the parent, of
\* the oldest block is stored.
C17_WalkStopsAtLastRecord ==
    /\ (BlameDone /\ IsSome(blame_states)) =>
          /\ WalkStarts
          /\ exec_lookups = TargetLen
          /\ parent_lookups = TargetLen - 1
    /\ (BlameDone /\ WalkStarts /\ ~WalkHasGap) =>
          /\ IsSome(blame_states)
          /\ ReturnedBlameOfLength(TargetLen)

\* A walk of three entries succeeded on a store that lacks the header of the
\* oldest of the three blocks.
C17_Witness ==
    /\ BlameDone
    /\ IsSome(blame_states)
    /\ TargetLen = REWARD_EPOCH_COUNT
    /\ exec_lookups = TargetLen
    /\ parent_lookups = TargetLen - 1
    /\ Ancestor(Unwrap(request.trusted_blame_block), TargetLen - 1) # -1
    /\ IsNone(headers[Ancestor(Unwrap(request.trusted_blame_block), TargetLen - 1)])

\* The store only grows: no stored header and no stored execution record is
\* changed or removed.
StoreOnlyGrows ==
    \A h \in AllHashes :
        /\ IsSome(headers[h]) => headers'[h] = headers[h]
        /\ IsSome(exec_info[h]) => exec_info'[h] = exec_info[h]

\* C18: with two handlers running beside each other and beside a writer that
\* only adds headers and execution records, every non-empty blame vector a
\* handler has returned is, on the store as it is then and at any later time,
\* the vector the same request gives when run alone; an interleaving can
\* make a result empty but never another non-empty vector.
C18_ConcurrentBlameIsFinal ==
    /\ []((BlameDone /\ IsSome(blame_states)) =>
            blame_states = BlameAlone(request.trusted_blame_block, request.checkpoint))
    /\ []((other.pc = "done" /\ IsSome(other.blame_states)) =>
            other.blame_states = BlameAlone(Some(other.anchor), request.checkpoint))
    /\ [][StoreOnlyGrows]_vars

\* Two handlers of the same request: on the store as it is at the end one
\* request run alone gives the vector; the first handler returned it, the
\* second, which met a block the writer had not stored yet, returned None.
C18_Witness ==
    /\ BlameDone
    /\ other.pc = "done"
    /\ other.anchor = Unwrap(request.trusted_blame_block)
    /\ IsSome(blame_states)
    /\ Len(Unwrap(blame_states)[1]) >= REWARD_EPOCH_COUNT
    /\ IsNone(other.blame_states)
    /\ other.state_blame_vec # <<>>
    /\ blame_states = BlameAlone(request.trusted_blame_block, request.checkpoint)

====
